---- MODULE Spec2Model ----
(***************************************************************************)
(* Double-entry ledger and wallet reservation/settlement engine of         *)
(* blockflow_v5: app/ledger.py (post_transaction, create_reserve,          *)
(* release_reserve, settle_trade), app/wallet.py (deposit, reserve,        *)
(* release, settle), the Ledger and Wallet tables of app/models.py and     *)
(* demo/reconcile.py.                                                      *)
(*                                                                         *)
(* Every post_transaction call runs in its own SQLAlchemy session          *)
(* (autocommit=False, autoflush=False).  The store is modelled as a        *)
(* READ COMMITTED relational store with row locks taken by                 *)
(* SELECT ... FOR UPDATE and a unique index on wallets(user_id, currency): *)
(* a session sees the committed rows and its own uncommitted rows.         *)
(* Amounts are integers counted in the smallest unit of the                *)
(* Numeric(20, 8) columns.                                                 *)
(***************************************************************************)
EXTENDS Integers, Sequences, FiniteSets, TLC

\* ---------------------------------------------------------------- bounds
MaxCalls == 2          \* post_transaction calls started in one behaviour
MaxAmount == 2         \* largest amount / fee a caller passes
MaxAudits == 1         \* reconcile() runs started in one behaviour

Procs == {"p1", "p2"}  \* concurrent callers (threads / request handlers)
Users == {1, 2}
Currencies == {"INR"}
Amounts == 1..MaxAmount
Fees == 0..MaxAmount

\* ------------------------------------------------------------ conversions
Digits == <<"1", "2", "3", "4", "5", "6", "7", "8", "9">>

\* f'{user_id}' : decimal text of a user id
StrOf(n) == Digits[n]

\* int(parts[1]) : the inverse parse
IntOf(s) == CHOOSE n \in 1..Len(Digits) : Digits[n] = s

Abs(x) == IF x < 0 THEN -x ELSE x

\* str(Decimal(x)) : sign and magnitude text
DecimalStr(x) == [sign |-> IF x < 0 THEN "-" ELSE "", mag |-> Abs(x)]

\* Decimal(e['amount']) : parse of the text
Decimal(s) == IF s.sign = "-" THEN 0 - s.mag ELSE s.mag

\* ------------------------------------------------------------ account keys
\* An account key is kept as the list acc.split(':') yields.
account_user_available(user_id, currency) ==
    <<"user", StrOf(user_id), currency, "available">>

account_user_reserved(user_id, currency) ==
    <<"user", StrOf(user_id), currency, "reserved">>

account_platform_fees(currency) == <<"platform", "fees", currency>>

account_external_bank(currency) == <<"external", "bank", currency>>

Entry(acc, amt) == [account |-> acc, amount |-> DecimalStr(amt)]

\* ------------------------------------------------------- entry constructors
\* a deposit that credits the reserved bucket
deposit_to_reserved(user_id, currency, amount) ==
    << Entry(account_user_reserved(user_id, currency), amount),
       Entry(account_external_bank(currency), 0 - amount) >>

deposit(user_id, currency, amount) ==
    << Entry(account_user_available(user_id, currency), amount),
       Entry(account_external_bank(currency), 0 - amount) >>

\* a reserve with the two signs exchanged
create_reserve_inverted(user_id, currency, amount) ==
    << Entry(account_user_reserved(user_id, currency), 0 - amount),
       Entry(account_user_available(user_id, currency), amount) >>

create_reserve(user_id, currency, amount) ==
    << Entry(account_user_reserved(user_id, currency), amount),
       Entry(account_user_available(user_id, currency), 0 - amount) >>

\* a release that repeats the reserve instead of undoing it
release_reserve_repeats(user_id, currency, amount) ==
    << Entry(account_user_reserved(user_id, currency), amount),
       Entry(account_user_available(user_id, currency), 0 - amount) >>

release_reserve(user_id, currency, amount) ==
    << Entry(account_user_reserved(user_id, currency), 0 - amount),
       Entry(account_user_available(user_id, currency), amount) >>

\* a settle with the two parties exchanged
settle_swapped(from_user, to_user, currency, amount, fee) ==
    << Entry(account_user_reserved(to_user, currency), 0 - amount),
       Entry(account_user_available(from_user, currency), amount - fee),
       Entry(account_platform_fees(currency), fee) >>

settle(from_user, to_user, currency, amount, fee) ==
    << Entry(account_user_reserved(from_user, currency), 0 - amount),
       Entry(account_user_available(to_user, currency), amount - fee),
       Entry(account_platform_fees(currency), fee) >>

\* a settle_trade that credits the recipient the gross amount
settle_trade_gross(from_user, to_user, currency, amount, fee_amount) ==
    << Entry(account_user_reserved(from_user, currency), 0 - amount),
       Entry(account_user_available(to_user, currency), amount) >>
    \o (IF fee_amount # 0
        THEN << Entry(account_platform_fees(currency), fee_amount) >>
        ELSE << >>)

settle_trade(from_user, to_user, currency, amount, fee_amount) ==
    << Entry(account_user_reserved(from_user, currency), 0 - amount),
       Entry(account_user_available(to_user, currency), amount - fee_amount) >>
    \o (IF fee_amount # 0
        THEN << Entry(account_platform_fees(currency), fee_amount) >>
        ELSE << >>)

\* Entry lists handed straight to post_transaction by other callers.
DirectPosts ==
    { << Entry(account_user_available(1, "INR"), 1),
         Entry(account_user_available(2, "INR"), 0 - 1) >>,
      << Entry(account_user_available(1, "INR"), 1) >>,
      << Entry(account_user_available(1, "INR"), 1),
         Entry(<<"user", "2">>, 0 - 1) >>,
      << >> }

\* ------------------------------------------------------------------ state
VARIABLES
    ledger,     \* committed rows of table ledger, in insertion order
    wallets,    \* committed rows of table wallets; the row id is the index
    nextTx,     \* number of tx_id values handed out so far
    pc,         \* per caller: "idle", "loop" (line 21), "insert" (line 32)
    call,       \* per caller: the operation it last invoked
    entries,    \* per caller: the entries argument of post_transaction
    idx,        \* per caller: index of the entry the for loop is at
    tx_id,      \* per caller: tx_id of the running / last call
    pending,    \* per caller: Ledger objects added to the session
    sess,       \* per caller: Wallet objects of the session (id 0 = new)
    result,     \* per caller: outcome of the last call
    audit,      \* the reconcile() run: its step, what it read, its locks
    users,      \* committed rows of table users, by id
    ledger_entries, \* committed rows of table ledger_entries
    svc,        \* per caller: its running / last ledger_service call
    svcCalls    \* number of ledger_service calls started so far

\* the state of app/ledger_service.py
svcVars == <<users, ledger_entries, svc, svcCalls>>

vars == <<ledger, wallets, nextTx, pc, call, entries, idx, tx_id, pending,
          sess, result, audit, svcVars>>

NoCall == [currency |-> "", amount |-> 0, from_user |-> 0, to_user |-> 0,
           fee |-> 0, op |-> "none", ref |-> "none"]

\* no ledger_service call is running and none has run
NoSvc == [amt |-> 0, at |-> "idle", kind |-> "none", from_id |-> 0,
          to_id |-> 0, allow_negative |-> FALSE, objs |-> << >>,
          outcome |-> "none", entry_args |-> << >>]

\* ledger_service at rest: the users exist with a zero INR balance
SvcAtRest ==
    /\ users = [u \in Users |-> [balance_inr |-> 0]]
    /\ ledger_entries = << >>
    /\ svc = [p \in Procs |-> NoSvc]
    /\ svcCalls = 0

\* no reconcile() is running and none has run
NoAudit == [step |-> "idle", ledger_map |-> << >>, locks |-> {},
            report |-> {}, runs |-> 0]

Init ==
    /\ ledger = << >>
    /\ wallets = << >>
    /\ nextTx = 0
    /\ pc = [p \in Procs |-> "idle"]
    /\ call = [p \in Procs |-> NoCall]
    /\ entries = [p \in Procs |-> << >>]
    /\ idx = [p \in Procs |-> 0]
    /\ tx_id = [p \in Procs |-> 0]
    /\ pending = [p \in Procs |-> << >>]
    /\ sess = [p \in Procs |-> << >>]
    /\ result = [p \in Procs |-> "none"]
    /\ audit = NoAudit
    /\ SvcAtRest

\* ---------------------------------------------------------------- helpers
RECURSIVE SumAmounts(_)
SumAmounts(es) ==
    IF es = << >> THEN 0
    ELSE Decimal(es[1].amount) + SumAmounts(Tail(es))

\* parts[0]=='user' and parts[3] in ('available','reserved'); parts[3] of a
\* shorter list raises IndexError
KeyRaises(parts) == parts[1] = "user" /\ Len(parts) < 4

IsWalletKey(parts) ==
    /\ parts[1] = "user"
    /\ Len(parts) >= 4
    /\ parts[4] \in {"available", "reserved"}

\* ids of the committed wallets rows for (uid, cur)
CommittedIds(uid, cur) ==
    {i \in 1..Len(wallets) :
        wallets[i].user_id = uid /\ wallets[i].currency = cur}

\* a query that never finds the session's own Wallet objects
SessionPos_blind(p, uid, cur) == {}

\* positions of the session's own Wallet objects for (uid, cur)
SessionPos(p, uid, cur) ==
    {j \in 1..Len(sess[p]) :
        sess[p][j].user_id = uid /\ sess[p][j].currency = cur}

Min(S) == CHOOSE x \in S : \A y \in S : x <= y

\* a query without with_for_update(): the row lock is never waited for
RowLocked_no_for_update(p, i) == FALSE

\* row i is locked FOR UPDATE by a session other than p
RowLocked(p, i) ==
    \/ \E q \in Procs \ {p} : \E j \in 1..Len(sess[q]) : sess[q][j].id = i
    \/ i \in audit.locks

\* a wallets table without the unique index: an INSERT never waits
InsertPending_no_unique_index(p, uid, cur) == FALSE

\* another session holds an uncommitted INSERT of (uid, cur)
InsertPending(p, uid, cur) ==
    \E q \in Procs \ {p} : \E j \in SessionPos(q, uid, cur) :
        sess[q][j].id = 0

\* an update that always lands on the available column
Apply_available_only(w, which, amt) == [w EXCEPT !.available = @ + amt]

\* w.available = (w.available or 0) + amt / w.reserved = ... + amt
Apply(w, which, amt) ==
    IF which = "available"
    THEN [w EXCEPT !.available = @ + amt]
    ELSE [w EXCEPT !.reserved = @ + amt]

\* Ledger(tx_id=tx_id, account=acc, amount=amt, entry_type=..., ref=ref)
LedgerRow(tx, ref, e) ==
    [account |-> e.account,
     amount |-> Decimal(e.amount),
     tx_id |-> tx,
     ref |-> ref,
     entry_type |-> IF Decimal(e.amount) > 0 THEN "credit" ELSE "debit"]

LedgerRec(p, e) == LedgerRow(tx_id[p], call[p].ref, e)

\* the session's objects after entry e was applied to the object at j
Touch(p, j, which, amt) ==
    [sess[p] EXCEPT ![j] = Apply(@, which, amt)]

\* db.commit() : UPDATE of the loaded rows, INSERT of the new ones
RECURSIVE Flush(_, _)
Flush(rows, objs) ==
    IF objs = << >> THEN rows
    ELSE LET o == objs[1]
             w == [user_id |-> o.user_id, currency |-> o.currency,
                   available |-> o.available, reserved |-> o.reserved]
         IN  Flush(IF o.id = 0 THEN Append(rows, w)
                   ELSE [rows EXCEPT ![o.id] = w],
                   Tail(objs))

\* p waits for a row lock or a unique-index entry that q holds
WaitsFor(p, q) ==
    /\ p # q
    /\ pc[p] \in {"loop", "insert"}
    /\ idx[p] <= Len(entries[p])
    /\ LET parts == entries[p][idx[p]].account
       IN  /\ IsWalletKey(parts)
           /\ LET uid == IntOf(parts[2])
                  cur == parts[3]
              IN  IF pc[p] = "insert"
                  THEN \E j \in SessionPos(q, uid, cur) : sess[q][j].id = 0
                  ELSE /\ CommittedIds(uid, cur) # {}
                       /\ \E j \in 1..Len(sess[q]) :
                             sess[q][j].id = Min(CommittedIds(uid, cur))

\* a sum check that lets every entry list through
Balanced_unchecked(es) == TRUE

\* total = sum(Decimal(e['amount']) for e in entries); total != 0 raises
Balanced(es) == SumAmounts(es) = 0

\* ---------------------------------------------------------------- actions
\* lines 15-19: fresh tx_id, the sum check, then the session is opened
Begin(p, c, es) ==
    /\ pc[p] = "idle"
    /\ nextTx < MaxCalls
    /\ nextTx' = nextTx + 1
    /\ tx_id' = [tx_id EXCEPT ![p] = nextTx + 1]
    /\ call' = [call EXCEPT ![p] = c]
    /\ entries' = [entries EXCEPT ![p] = es]
    /\ pending' = [pending EXCEPT ![p] = << >>]
    /\ sess' = [sess EXCEPT ![p] = << >>]
    /\ IF ~Balanced(es)
       THEN /\ result' = [result EXCEPT ![p] = "unbalanced"]
            /\ pc' = pc
            /\ idx' = [idx EXCEPT ![p] = 0]
       ELSE /\ result' = [result EXCEPT ![p] = "running"]
            /\ pc' = [pc EXCEPT ![p] = "loop"]
            /\ idx' = [idx EXCEPT ![p] = 1]
    /\ UNCHANGED <<ledger, wallets, audit, svcVars>>

CallRec(op, ref, f, t, cur, a, fee) ==
    [currency |-> cur, amount |-> a, from_user |-> f, to_user |-> t,
     fee |-> fee, op |-> op, ref |-> ref]

CallDeposit(p) ==
    \E u \in Users, cur \in Currencies, a \in Amounts :
        Begin(p, CallRec("deposit", "deposit", u, 0, cur, a, 0),
              deposit(u, cur, a))

CallReserve(p) ==
    \E u \in Users, cur \in Currencies, a \in Amounts :
        Begin(p, CallRec("reserve", "reserve", u, 0, cur, a, 0),
              create_reserve(u, cur, a))

CallRelease(p) ==
    \E u \in Users, cur \in Currencies, a \in Amounts :
        Begin(p, CallRec("release", "release", u, 0, cur, a, 0),
              release_reserve(u, cur, a))

CallSettle(p) ==
    \E f \in Users, t \in Users, cur \in Currencies, a \in Amounts,
       fee \in Fees :
        Begin(p, CallRec("settle", "settle", f, t, cur, a, fee),
              settle(f, t, cur, a, fee))

CallPost(p) ==
    \E es \in DirectPosts :
        Begin(p, CallRec("post", "none", 0, 0, "", 0, 0), es)

\* a failure path that commits what the session had flushed so far
Fail_commits_flushed(p, why) ==
    /\ pc' = [pc EXCEPT ![p] = "idle"]
    /\ result' = [result EXCEPT ![p] = why]
    /\ pending' = [pending EXCEPT ![p] = << >>]
    /\ sess' = [sess EXCEPT ![p] = << >>]
    /\ ledger' = ledger \o pending[p]
    /\ wallets' = Flush(wallets, sess[p])
    /\ UNCHANGED <<nextTx, call, entries, idx, tx_id, audit, svcVars>>

\* an exception leaves the try block: finally db.close() rolls back
Fail(p, why) ==
    /\ pc' = [pc EXCEPT ![p] = "idle"]
    /\ result' = [result EXCEPT ![p] = why]
    /\ pending' = [pending EXCEPT ![p] = << >>]
    /\ sess' = [sess EXCEPT ![p] = << >>]
    /\ UNCHANGED <<ledger, wallets, nextTx, call, entries, idx, tx_id,
                 audit, svcVars>>

\* the entry was handled; the for loop moves on
Advance(p, e, newSess) ==
    /\ pending' = [pending EXCEPT ![p] = Append(@, LedgerRec(p, e))]
    /\ sess' = [sess EXCEPT ![p] = newSess]
    /\ idx' = [idx EXCEPT ![p] = @ + 1]
    /\ pc' = [pc EXCEPT ![p] = "loop"]
    /\ UNCHANGED <<ledger, wallets, nextTx, call, entries, tx_id, result,
                 audit, svcVars>>

\* lines 21-37, one iteration of the for loop up to the wallet query
LoopStep(p) ==
    /\ pc[p] = "loop"
    /\ idx[p] <= Len(entries[p])
    /\ LET e == entries[p][idx[p]]
           parts == e.account
           amt == Decimal(e.amount)
       IN  IF KeyRaises(parts) THEN Fail(p, "key_error")
           ELSE IF ~IsWalletKey(parts) THEN Advance(p, e, sess[p])
           ELSE
             LET uid == IntOf(parts[2])
                 cur == parts[3]
                 which == parts[4]
                 ids == CommittedIds(uid, cur)
                 own == SessionPos(p, uid, cur)
             IN  IF ids # {}
                 THEN LET i == Min(ids)
                          mine == {j \in 1..Len(sess[p]) : sess[p][j].id = i}
                      IN  IF mine # {}
                          THEN Advance(p, e, Touch(p, Min(mine), which, amt))
                          ELSE /\ ~RowLocked(p, i)
                               /\ Advance(p, e,
                                    Append(sess[p],
                                      Apply([user_id |-> uid,
                                             currency |-> cur, id |-> i,
                                             available |-> wallets[i].available,
                                             reserved |-> wallets[i].reserved],
                                            which, amt)))
                 ELSE IF own # {}
                 THEN Advance(p, e, Touch(p, Min(own), which, amt))
                 ELSE /\ pc' = [pc EXCEPT ![p] = "insert"]
                      /\ pending' = [pending EXCEPT
                                       ![p] = Append(@, LedgerRec(p, e))]
                      /\ UNCHANGED <<ledger, wallets, nextTx, call, entries,
                                     idx, tx_id, sess, result, audit, svcVars>>

\* lines 31-37: Wallet(...), db.add(w), db.flush(), then the update
InsertStep(p) ==
    /\ pc[p] = "insert"
    /\ LET e == entries[p][idx[p]]
           parts == e.account
           amt == Decimal(e.amount)
           uid == IntOf(parts[2])
           cur == parts[3]
           which == parts[4]
       IN  IF CommittedIds(uid, cur) # {}
           THEN Fail(p, "integrity_error")
           ELSE /\ ~InsertPending(p, uid, cur)
                /\ sess' = [sess EXCEPT ![p] =
                       Append(@, Apply([user_id |-> uid, currency |-> cur,
                                        id |-> 0, available |-> 0,
                                        reserved |-> 0], which, amt))]
                /\ idx' = [idx EXCEPT ![p] = @ + 1]
                /\ pc' = [pc EXCEPT ![p] = "loop"]
                /\ UNCHANGED <<ledger, wallets, nextTx, call, entries, tx_id,
                               pending, result, audit, svcVars>>

\* a commit that rewrites the ledger table with the session's rows
Commit_rewrites_ledger(p) ==
    /\ pc[p] = "loop"
    /\ idx[p] > Len(entries[p])
    /\ ledger' = pending[p]
    /\ wallets' = Flush(wallets, sess[p])
    /\ pc' = [pc EXCEPT ![p] = "idle"]
    /\ result' = [result EXCEPT ![p] = "ok"]
    /\ pending' = [pending EXCEPT ![p] = << >>]
    /\ sess' = [sess EXCEPT ![p] = << >>]
    /\ UNCHANGED <<nextTx, call, entries, idx, tx_id, audit, svcVars>>

\* lines 38-41: db.commit(), return tx_id
Commit(p) ==
    /\ pc[p] = "loop"
    /\ idx[p] > Len(entries[p])
    /\ ledger' = ledger \o pending[p]
    /\ wallets' = Flush(wallets, sess[p])
    /\ pc' = [pc EXCEPT ![p] = "idle"]
    /\ result' = [result EXCEPT ![p] = "ok"]
    /\ pending' = [pending EXCEPT ![p] = << >>]
    /\ sess' = [sess EXCEPT ![p] = << >>]
    /\ UNCHANGED <<nextTx, call, entries, idx, tx_id, audit, svcVars>>

\* the store raises inside the try block (connection lost, statement error)
StoreError(p) ==
    /\ pc[p] \in {"loop", "insert"}
    /\ Fail(p, "store_error")

\* the store breaks a lock cycle by failing one of the waiting statements
DeadlockAbort(p) ==
    /\ \E q \in Procs : WaitsFor(p, q) /\ WaitsFor(q, p)
    /\ Fail(p, "deadlock")

Next ==
    \E p \in Procs :
        \/ CallDeposit(p)
        \/ CallReserve(p)
        \/ CallRelease(p)
        \/ CallSettle(p)
        \/ CallPost(p)
        \/ LoopStep(p)
        \/ InsertStep(p)
        \/ Commit(p)
        \/ StoreError(p)
        \/ DeadlockAbort(p)

Spec == Init /\ [][Next]_vars

\* ------------------------------------------------- a funded starting state
\* The store after one completed deposit(1, 'INR', MaxAmount): the state the
\* balance-dependent cases start from.  Its rows carry tx_id 0.
SeedEntries == deposit(1, "INR", MaxAmount)

SeedLedger == [k \in 1..Len(SeedEntries) |->
                  LedgerRow(0, "deposit", SeedEntries[k])]

SeedWallets ==
    Flush(<< >>, << Apply([user_id |-> 1, currency |-> "INR", id |-> 0,
                           available |-> 0, reserved |-> 0],
                          "available", Decimal(SeedEntries[1].amount)) >>)

InitFunded ==
    /\ ledger = SeedLedger
    /\ wallets = SeedWallets
    /\ nextTx = 0
    /\ pc = [p \in Procs |-> "idle"]
    /\ call = [p \in Procs |-> NoCall]
    /\ entries = [p \in Procs |-> << >>]
    /\ idx = [p \in Procs |-> 0]
    /\ tx_id = [p \in Procs |-> 0]
    /\ pending = [p \in Procs |-> << >>]
    /\ sess = [p \in Procs |-> << >>]
    /\ result = [p \in Procs |-> "none"]
    /\ audit = NoAudit
    /\ SvcAtRest

SpecFunded == InitFunded /\ [][Next]_vars

\* ------------------------------------------------------------- reconcile
RECURSIVE SumRows(_, _)
\* SELECT SUM(amount) FROM ledger WHERE account = acc
SumRows(rows, acc) ==
    IF rows = << >> THEN 0
    ELSE (IF rows[1].account = acc THEN rows[1].amount ELSE 0)
         + SumRows(Tail(rows), acc)

LedgerAccounts(rows) == {rows[i].account : i \in 1..Len(rows)}

\* a wallet map whose two keys carry each other's bucket
WalletMapGet_swapped(ws, acc) ==
    LET hitA == {i \in 1..Len(ws) :
                   account_user_available(ws[i].user_id, ws[i].currency) = acc}
        hitR == {i \in 1..Len(ws) :
                   account_user_reserved(ws[i].user_id, ws[i].currency) = acc}
        last == CHOOSE i \in hitA \cup hitR : \A j \in hitA \cup hitR : j <= i
    IN  IF hitA \cup hitR = {} THEN 0
        ELSE IF last \in hitA THEN ws[last].reserved ELSE ws[last].available

\* wallet_map.get(acc, Decimal(0)) : a later row overwrites an earlier one
WalletMapGet(ws, acc) ==
    LET hitA == {i \in 1..Len(ws) :
                   account_user_available(ws[i].user_id, ws[i].currency) = acc}
        hitR == {i \in 1..Len(ws) :
                   account_user_reserved(ws[i].user_id, ws[i].currency) = acc}
        last == CHOOSE i \in hitA \cup hitR : \A j \in hitA \cup hitR : j <= i
    IN  IF hitA \cup hitR = {} THEN 0
        ELSE IF last \in hitA THEN ws[last].available ELSE ws[last].reserved

\* demo/reconcile.py reconcile(): the list of inconsistencies
reconcile(rows, ws) ==
    {<<acc, SumRows(rows, acc), WalletMapGet(ws, acc)>> :
        acc \in {a \in LedgerAccounts(rows) :
                   a[1] = "user" /\ WalletMapGet(ws, a) # SumRows(rows, a)}}

\* ledger_map = {r[0]: Decimal(r[1] or 0) for r in rows}
LedgerMap(rows) == [acc \in LedgerAccounts(rows) |-> SumRows(rows, acc)]

\* the compare loop over ledger_map.items()
Inconsistencies(lm, ws) ==
    {<<acc, lm[acc], WalletMapGet(ws, acc)>> :
        acc \in {a \in DOMAIN lm :
                   a[1] = "user" /\ WalletMapGet(ws, a) # lm[a]}}

\* a wallet query that locks every row it reads
AuditLockSet_for_update(ws) == 1..Len(ws)

\* db.query(models.Wallet).all() : no with_for_update(), no row is locked
AuditLockSet(ws) == {}

\* lines 7-11: the session is opened and the GROUP BY query is run
AuditBegin ==
    /\ audit.step = "idle"
    /\ audit.runs < MaxAudits
    /\ audit' = [step |-> "wallets", ledger_map |-> LedgerMap(ledger),
                 locks |-> {}, report |-> {}, runs |-> audit.runs + 1]
    /\ UNCHANGED <<ledger, wallets, nextTx, pc, call, entries, idx, tx_id,
                   pending, sess, result, svcVars>>

\* lines 13-25: the wallets are read and compared with the ledger sums
AuditWallets ==
    /\ audit.step = "wallets"
    /\ audit' = [audit EXCEPT
                   !.step = "close",
                   !.locks = AuditLockSet(wallets),
                   !.report = Inconsistencies(audit.ledger_map, wallets)]
    /\ UNCHANGED <<ledger, wallets, nextTx, pc, call, entries, idx, tx_id,
                   pending, sess, result, svcVars>>

\* lines 26-27: the report is returned, finally db.close()
AuditClose ==
    /\ audit.step = "close"
    /\ audit' = [audit EXCEPT !.step = "idle", !.locks = {}]
    /\ UNCHANGED <<ledger, wallets, nextTx, pc, call, entries, idx, tx_id,
                   pending, sess, result, svcVars>>

Audit == AuditBegin \/ AuditWallets \/ AuditClose

NextAudit == Next \/ Audit

\* the poster and the auditor side by side, from the empty store
SpecAudit == Init /\ [][NextAudit]_vars

\* ---------------------------------------------- reconcile() on given tables
\* the ledger rows one committed call leaves behind
RowsOf(tx, ref, es) == [k \in 1..Len(es) |-> LedgerRow(tx, ref, es[k])]

\* ledger tables: empty, one committed call, or the seed deposit and one call
LedgerTables ==
    LET one ==
          {RowsOf(1, "deposit", deposit(u, cur, a)) :
              u \in Users, cur \in Currencies, a \in Amounts}
          \cup {RowsOf(1, "reserve", create_reserve(u, cur, a)) :
              u \in Users, cur \in Currencies, a \in Amounts}
          \cup {RowsOf(1, "release", release_reserve(u, cur, a)) :
              u \in Users, cur \in Currencies, a \in Amounts}
          \cup {RowsOf(1, "settle", settle(1, 2, cur, a, 1)) :
              cur \in Currencies, a \in Amounts}
    IN  {<< >>} \cup one \cup {SeedLedger \o r : r \in one}

\* wallets tables that respect the unique (user_id, currency) constraint
WalletTables ==
    LET row == [user_id : Users, currency : Currencies,
                available : 0..MaxAmount, reserved : 0..MaxAmount]
    IN  {<< >>} \cup {<<w>> : w \in row}
        \cup {<<w, v>> : w \in {x \in row : x.user_id = 1},
                         v \in {x \in row : x.user_id = 2}}

\* reconcile() is handed any content of the two tables
InitReconcile ==
    /\ ledger \in LedgerTables
    /\ wallets \in WalletTables
    /\ nextTx = 0
    /\ pc = [p \in Procs |-> "idle"]
    /\ call = [p \in Procs |-> NoCall]
    /\ entries = [p \in Procs |-> << >>]
    /\ idx = [p \in Procs |-> 0]
    /\ tx_id = [p \in Procs |-> 0]
    /\ pending = [p \in Procs |-> << >>]
    /\ sess = [p \in Procs |-> << >>]
    /\ result = [p \in Procs |-> "none"]
    /\ audit = NoAudit
    /\ SvcAtRest

SpecReconcile == InitReconcile /\ [][Audit]_vars

\* ------------------------------------------- the two settle implementations
CallSettleTrade(p) ==
    \E f \in Users, t \in Users, cur \in Currencies, a \in Amounts,
       fee \in Fees :
        Begin(p, CallRec("settle_trade", "settle", f, t, cur, a, fee),
              settle_trade(f, t, cur, a, fee))

\* the store after deposit(1, 'INR', MaxAmount) and reserve(1, 'INR',
\* MaxAmount): user 1 holds MaxAmount in reserved
InitSettle ==
    /\ ledger = SeedLedger
                \o RowsOf(0, "reserve", create_reserve(1, "INR", MaxAmount))
    /\ wallets = << [user_id |-> 1, currency |-> "INR",
                     available |-> 0, reserved |-> MaxAmount] >>
    /\ nextTx = 0
    /\ pc = [p \in Procs |-> "idle"]
    /\ call = [p \in Procs |-> NoCall]
    /\ entries = [p \in Procs |-> << >>]
    /\ idx = [p \in Procs |-> 0]
    /\ tx_id = [p \in Procs |-> 0]
    /\ pending = [p \in Procs |-> << >>]
    /\ sess = [p \in Procs |-> << >>]
    /\ result = [p \in Procs |-> "none"]
    /\ audit = NoAudit
    /\ SvcAtRest

NextSettle ==
    \E p \in Procs :
        \/ CallSettle(p)
        \/ CallSettleTrade(p)
        \/ LoopStep(p)
        \/ InsertStep(p)
        \/ Commit(p)
        \/ StoreError(p)
        \/ DeadlockAbort(p)

\* wallet.settle and ledger.settle_trade side by side
SpecSettle == InitSettle /\ [][NextSettle]_vars

\* ------------------------------------------------ app/ledger_service.py
\* Every call gets its own session db.  Balances are the balance_inr column
\* of users (User has no balances dict and no balance attribute), counted
\* as integers.
ServiceIds == Users \cup {3}           \* user 3 has no row in users
SvcAmounts == (0 - 1)..MaxAmount       \* amounts callers pass: < 0, 0, > 0

posterVars == <<ledger, wallets, nextTx, pc, call, entries, idx, tx_id,
                pending, sess, result, audit>>

\* attributes of class LedgerEntry: its columns, its relationship and what
\* the declarative Base gives every mapped class
LedgerEntryAttrs ==
    {"id", "user_id", "currency", "amount", "balance_after", "txn_type",
     "description", "timestamp", "user", "metadata", "registry"}

\* the keyword arguments of LedgerEntry(...) in create_ledger_entry
EntryKwargs ==
    {"user_id", "asset", "amount", "type", "reference", "metadata",
     "balance_before", "balance_after", "timestamp"}

\* the declarative constructor raises TypeError for a keyword that is not
\* an attribute of the mapped class
ConstructorAccepts(kwargs) == kwargs \subseteq LedgerEntryAttrs

\* the arguments of one create_ledger_entry call; balance_before is << >>
\* for None and <<b>> for the value b
EntryArgs(uid, amount, type, before, after) ==
    [user_id |-> uid, amount |-> amount, type |-> type,
     balance_before |-> before, balance_after |-> after]

\* new = old + float(delta); setattr(user, 'balance_inr', new)
apply_balance_change(o, uid, delta) == [o EXCEPT ![uid] = @ + delta]

\* a transfer that locks the sender first and the receiver second
LockIds_unsorted(c) ==
    IF c.kind = "transfer" THEN <<c.from_id, c.to_id>> ELSE <<c.from_id>>

\* the ids a call queries with_for_update(), in query order
LockIds(c) ==
    IF c.kind = "transfer"
    THEN IF c.from_id <= c.to_id THEN <<c.from_id, c.to_id>>
         ELSE <<c.to_id, c.from_id>>
    ELSE <<c.from_id>>

\* a transfer without the balance check
TransferRefused_unchecked(current_from, amount) == FALSE

\* if current_from < amount: raise ValueError
TransferRefused(current_from, amount) == current_from < amount

\* a debit without the balance check
DebitRefused_unchecked(allow_negative, current, amount) == FALSE

\* if not allow_negative and current < amount: raise ValueError
DebitRefused(allow_negative, current, amount) ==
    ~allow_negative /\ current < amount

\* lines 251-271 of transfer_between_users: how far the call gets with the
\* objects o its two queries returned
TransferOutcome(c, o) ==
    LET u1 == LockIds(c)[1]
        u2 == LockIds(c)[2]
        Has(i) == i \in DOMAIN o
        user_from == IF u1 = c.from_id THEN u1 ELSE u2
        user_to == IF u2 = c.to_id THEN u2 ELSE u1
    IN  IF ~Has(u1) THEN "attribute_error"
        ELSE IF ~Has(u2) THEN "attribute_error"
        ELSE IF ~Has(user_from) \/ ~Has(user_to) THEN "not_found"
        ELSE IF TransferRefused(o[c.from_id], c.amt)
        THEN "insufficient_funds"
        ELSE "entries"

\* lines 273-286: the session objects after both balance changes
TransferObjs(c, o) ==
    apply_balance_change(apply_balance_change(o, c.from_id, 0 - c.amt),
                         c.to_id, c.amt)

\* lines 289-310: the two create_ledger_entry calls
TransferEntries(c, o) ==
    << EntryArgs(c.from_id, 0 - Abs(c.amt), "transfer_out",
                 <<o[c.from_id]>>,
                 apply_balance_change(o, c.from_id, 0 - c.amt)[c.from_id]),
       EntryArgs(c.to_id, Abs(c.amt), "transfer_in",
                 <<o[c.to_id]>>,
                 TransferObjs(c, o)[c.to_id]) >>

\* except Exception: db.rollback(); raise
Rollback(p, why, args) ==
    /\ svc' = [svc EXCEPT ![p] = [@ EXCEPT !.at = "idle",
                                            !.objs = << >>,
                                            !.outcome = why,
                                            !.entry_args = args]]
    /\ UNCHANGED <<users, ledger_entries>>

\* create_ledger_entry for each of es, then db.commit()
Post(p, o, es) ==
    IF ConstructorAccepts(EntryKwargs)
    THEN /\ users' = [u \in DOMAIN users |->
                        IF u \in DOMAIN o THEN [balance_inr |-> o[u]]
                        ELSE users[u]]
         /\ ledger_entries' = ledger_entries \o es
         /\ svc' = [svc EXCEPT ![p] = [@ EXCEPT !.at = "idle",
                                                 !.objs = << >>,
                                                 !.outcome = "ok",
                                                 !.entry_args = es]]
    ELSE Rollback(p, "type_error", <<es[1]>>)

\* a caller enters credit_user, debit_user or transfer_between_users
SvcBegin(p, kind, f, t, a, neg) ==
    /\ svc[p].at = "idle"
    /\ svcCalls < MaxCalls
    /\ svcCalls' = svcCalls + 1
    /\ svc' = [svc EXCEPT ![p] =
                 [amt |-> a, at |-> "lock1", kind |-> kind, from_id |-> f,
                  to_id |-> t, allow_negative |-> neg, objs |-> << >>,
                  outcome |-> "running", entry_args |-> << >>]]
    /\ UNCHANGED <<users, ledger_entries, posterVars>>

CallCredit(p) ==
    \E u \in ServiceIds, a \in SvcAmounts :
        SvcBegin(p, "credit", u, 0, a, FALSE)

CallDebit(p) ==
    \E u \in ServiceIds, a \in SvcAmounts, neg \in BOOLEAN :
        SvcBegin(p, "debit", u, 0, a, neg)

CallTransfer(p) ==
    \E f \in ServiceIds, t \in ServiceIds, a \in SvcAmounts :
        SvcBegin(p, "transfer", f, t, a, FALSE)

\* p's next query waits for a row that q holds FOR UPDATE
SvcWaitsFor(p, q) ==
    /\ p # q
    /\ svc[p].at \in {"lock1", "lock2"}
    /\ LockIds(svc[p])[IF svc[p].at = "lock1" THEN 1 ELSE 2]
          \in DOMAIN svc[q].objs

\* db.query(User).filter(User.id == ...).with_for_update().one_or_none()
SvcLock(p) ==
    /\ svc[p].at \in {"lock1", "lock2"}
    /\ LET c == svc[p]
           k == IF c.at = "lock1" THEN 1 ELSE 2
           uid == LockIds(c)[k]
           next == IF k < Len(LockIds(c)) THEN "lock2" ELSE "body"
       IN  /\ \A q \in Procs : ~SvcWaitsFor(p, q)
           /\ svc' = [svc EXCEPT ![p] =
                 [@ EXCEPT
                    !.at = next,
                    !.objs =
                       IF uid \notin DOMAIN users \/ uid \in DOMAIN c.objs
                       THEN c.objs
                       ELSE [i \in DOMAIN c.objs \cup {uid} |->
                               IF i = uid THEN users[uid].balance_inr
                               ELSE c.objs[i]]]]
    /\ UNCHANGED <<users, ledger_entries, svcCalls, posterVars>>

\* the rest of the call: checks, balance changes, ledger entries, commit
SvcBody(p) ==
    /\ svc[p].at = "body"
    /\ LET c == svc[p]
           o == c.objs
           u == c.from_id
       IN  IF c.kind = "transfer"
           THEN IF TransferOutcome(c, o) # "entries"
                THEN Rollback(p, TransferOutcome(c, o), << >>)
                ELSE Post(p, TransferObjs(c, o), TransferEntries(c, o))
           ELSE IF u \notin DOMAIN o
           THEN Rollback(p, "not_found", << >>)
           ELSE IF c.kind = "credit"
           THEN Post(p, apply_balance_change(o, u, c.amt),
                     << EntryArgs(u, c.amt, "credit", << >>, o[u] + c.amt) >>)
           ELSE IF DebitRefused(c.allow_negative, o[u], c.amt)
           THEN Rollback(p, "insufficient_funds", << >>)
           ELSE Post(p, apply_balance_change(o, u, 0 - c.amt),
                     << EntryArgs(u, 0 - Abs(c.amt), "debit", <<o[u]>>,
                                  o[u] - c.amt) >>)
    /\ UNCHANGED <<svcCalls, posterVars>>

SvcStep(p) == SvcLock(p) \/ SvcBody(p)

NextService ==
    \E p \in Procs :
        \/ CallCredit(p)
        \/ CallDebit(p)
        \/ CallTransfer(p)
        \/ SvcLock(p)
        \/ SvcBody(p)

\* users 1 and 2 exist with some balance; the post_transaction side is idle
InitService ==
    /\ ledger = << >>
    /\ wallets = << >>
    /\ nextTx = 0
    /\ pc = [p \in Procs |-> "idle"]
    /\ call = [p \in Procs |-> NoCall]
    /\ entries = [p \in Procs |-> << >>]
    /\ idx = [p \in Procs |-> 0]
    /\ tx_id = [p \in Procs |-> 0]
    /\ pending = [p \in Procs |-> << >>]
    /\ sess = [p \in Procs |-> << >>]
    /\ result = [p \in Procs |-> "none"]
    /\ audit = NoAudit
    /\ users \in [Users -> [balance_inr : 0..MaxAmount]]
    /\ ledger_entries = << >>
    /\ svc = [p \in Procs |-> NoSvc]
    /\ svcCalls = 0

\* a thread that can take its next step does take it
SpecService ==
    /\ InitService
    /\ [][NextService]_vars
    /\ \A p \in Procs : WF_vars(SvcStep(p))

\* ------------------------------------------------- vocabulary of the claims
TxIds == {ledger[i].tx_id : i \in 1..Len(ledger)}

RECURSIVE SumTx(_, _)
SumTx(rows, tx) ==
    IF rows = << >> THEN 0
    ELSE (IF rows[1].tx_id = tx THEN rows[1].amount ELSE 0)
         + SumTx(Tail(rows), tx)

RECURSIVE SumAll(_)
SumAll(rows) == IF rows = << >> THEN 0 ELSE rows[1].amount + SumAll(Tail(rows))

Ids(ws, uid, cur) ==
    {i \in 1..Len(ws) : ws[i].user_id = uid /\ ws[i].currency = cur}

\* the balances of (uid, cur) in table ws; an absent wallet reads as zero
Bal(ws, uid, cur) ==
    IF Ids(ws, uid, cur) = {} THEN [available |-> 0, reserved |-> 0]
    ELSE [available |-> ws[Min(Ids(ws, uid, cur))].available,
          reserved |-> ws[Min(Ids(ws, uid, cur))].reserved]

RECURSIVE Delta(_, _)
\* what the entries es add to account acc
Delta(es, acc) ==
    IF es = << >> THEN 0
    ELSE (IF es[1].account = acc THEN Decimal(es[1].amount) ELSE 0)
         + Delta(Tail(es), acc)

Touches(es, uid, cur) ==
    \E k \in 1..Len(es) :
        es[k].account \in {account_user_available(uid, cur),
                           account_user_reserved(uid, cur)}

AllIdle == \A p \in Procs : pc[p] = "idle"

\* p's call returns or raises in this step
Returns(p) == pc[p] # "idle" /\ pc'[p] = "idle"

\* results that come from the store, not from post_transaction's own logic
StoreFailures == {"store_error", "deadlock", "integrity_error"}

\* ------------------------------------------------------------------ C1
\* C1: every tx_id present in the ledger has entries summing to exactly
\* zero, and so does the whole ledger, whatever calls succeeded or failed.
C1_ZeroSumPerTx ==
    /\ \A tx \in TxIds : SumTx(ledger, tx) = 0
    /\ SumAll(ledger) = 0

\* a three-entry settle with a fee is committed and an unbalanced post was
\* turned away
C1_Witness ==
    /\ \E i \in 1..Len(ledger) :
          ledger[i].account = account_platform_fees("INR")
          /\ ledger[i].amount > 0
    /\ \E p \in Procs : result[p] = "unbalanced"

\* ------------------------------------------------------------------ C3
\* C3: whenever no call is in flight, each wallet bucket equals the sum of
\* the ledger entries of its account key (an absent wallet counting as
\* zero), and reconcile() returns the empty list.
C3_ReplayConsistency ==
    AllIdle =>
        /\ \A u \in Users, cur \in Currencies :
              /\ \A i \in Ids(wallets, u, cur) :
                    /\ wallets[i].available =
                          SumRows(ledger, account_user_available(u, cur))
                    /\ wallets[i].reserved =
                          SumRows(ledger, account_user_reserved(u, cur))
              /\ Ids(wallets, u, cur) = {} =>
                    /\ SumRows(ledger, account_user_available(u, cur)) = 0
                    /\ SumRows(ledger, account_user_reserved(u, cur)) = 0
        /\ reconcile(ledger, wallets) = {}

\* two transactions are committed and a wallet holds funds in both buckets
C3_Witness ==
    /\ AllIdle
    /\ Cardinality(TxIds) >= 2
    /\ \E i \in 1..Len(wallets) :
          wallets[i].reserved # 0 /\ wallets[i].available # 0

\* ------------------------------------------------------------------ C4
\* the rows and balances a successful call of p leaves behind
AllEffects(p) ==
    /\ ledger' = ledger \o
          [k \in 1..Len(entries[p]) |->
              LedgerRow(tx_id[p], call[p].ref, entries[p][k])]
    /\ \A u \in Users, cur \in Currencies :
          /\ Cardinality(Ids(wallets', u, cur)) =
                IF Ids(wallets, u, cur) # {} THEN Cardinality(Ids(wallets, u, cur))
                ELSE IF Touches(entries[p], u, cur) THEN 1 ELSE 0
          /\ Bal(wallets', u, cur).available =
                Bal(wallets, u, cur).available
                + Delta(entries[p], account_user_available(u, cur))
          /\ Bal(wallets', u, cur).reserved =
                Bal(wallets, u, cur).reserved
                + Delta(entries[p], account_user_reserved(u, cur))

\* C4: post_transaction is all-or-nothing.  The committed tables change
\* only in the step in which a call succeeds, and then by all of its ledger
\* rows and all of its wallet updates and creations; a call that fails at
\* any stage leaves both tables as they were.
C4_AllOrNothing ==
    [][ /\ \A p \in Procs :
            Returns(p) =>
                IF result'[p] = "ok" THEN AllEffects(p)
                ELSE ledger' = ledger /\ wallets' = wallets
        /\ (ledger' # ledger \/ wallets' # wallets) =>
              \E p \in Procs : Returns(p) /\ result'[p] = "ok"
      ]_vars

\* a call failed on the malformed key of its second entry, after its first
\* entry had been applied in the session, and another call committed
C4_Witness ==
    /\ \E p \in Procs : result[p] = "key_error"
    /\ \E q \in Procs : result[q] = "ok" /\ Len(entries[q]) > 0

\* ------------------------------------------------------------------ C2
\* C2: as long as the ledger holds only deposit, reserve, release and
\* settle transactions, every wallet has available >= 0 and reserved >= 0.
C2_NonNegative ==
    (\A i \in 1..Len(ledger) :
        ledger[i].ref \in {"deposit", "reserve", "release", "settle"})
    => \A i \in 1..Len(wallets) :
          wallets[i].available >= 0 /\ wallets[i].reserved >= 0

\* ------------------------------------------------------------------ C5
\* p's call began after q's running call began and has already returned
Overlapped(p, q) ==
    /\ p # q
    /\ pc[q] # "idle"
    /\ pc[p] = "idle"
    /\ tx_id[p] > tx_id[q]

\* C5: of two overlapping reserve calls on the funded wallet, each within
\* the available balance and together above it, exactly one succeeds and
\* the final available value is the balance less the successful amount.
C5_ExactlyOneReserveWins ==
    [][ \A p \in Procs, q \in Procs :
          LET u == call[q].from_user
              cur == call[q].currency
              A == Bal(SeedWallets, u, cur).available
          IN  ( /\ Overlapped(p, q)
                /\ Returns(q)
                /\ {tx_id[p], tx_id[q]} = {1, 2}
                /\ call[p].op = "reserve" /\ call[q].op = "reserve"
                /\ call[p].from_user = u /\ call[p].currency = cur
                /\ call[p].amount <= A /\ call[q].amount <= A
                /\ call[p].amount + call[q].amount > A
                /\ result[p] \notin StoreFailures
                /\ result'[q] \notin StoreFailures )
              => /\ ~(result[p] = "ok" <=> result'[q] = "ok")
                 /\ Bal(wallets', u, cur).available =
                       A - (IF result[p] = "ok" THEN call[p].amount
                            ELSE call[q].amount)
      ]_vars

\* ------------------------------------------------------------------ C6
\* C6: two concurrent settle calls never each hold a wallet lock the other
\* is waiting for.
C6_NoLockCycle ==
    \A p \in Procs, q \in Procs :
        (call[p].op = "settle" /\ call[q].op = "settle")
        => ~(WaitsFor(p, q) /\ WaitsFor(q, p))

\* ------------------------------------------------------------------ C7
\* the rows of transaction a sit before the rows of transaction b
CommittedBefore(a, b) ==
    \E i \in 1..Len(ledger), j \in 1..Len(ledger) :
        i < j /\ ledger[i].tx_id = a /\ ledger[j].tx_id = b

\* C7: when the first two calls after the funded start both commit and both
\* touch a wallet that existed at the start, its available and reserved
\* values are the starting values plus the deltas of both calls, in every
\* interleaving of the two.
C7_NoLostUpdate ==
    \A p \in Procs, q \in Procs :
        ( /\ p # q
          /\ pc[p] = "idle" /\ pc[q] = "idle"
          /\ result[p] = "ok" /\ result[q] = "ok"
          /\ {tx_id[p], tx_id[q]} = {1, 2}
          /\ TxIds \subseteq {0, 1, 2} )
        => \A u \in Users, cur \in Currencies :
             ( /\ Ids(SeedWallets, u, cur) # {}
               /\ Touches(entries[p], u, cur)
               /\ Touches(entries[q], u, cur) )
             => /\ Bal(wallets, u, cur).available =
                      Bal(SeedWallets, u, cur).available
                      + Delta(entries[p], account_user_available(u, cur))
                      + Delta(entries[q], account_user_available(u, cur))
                /\ Bal(wallets, u, cur).reserved =
                      Bal(SeedWallets, u, cur).reserved
                      + Delta(entries[p], account_user_reserved(u, cur))
                      + Delta(entries[q], account_user_reserved(u, cur))

\* both calls committed on the funded wallet, and the one that began later
\* committed first: the two ran concurrently
C7_Witness ==
    \E p \in Procs, q \in Procs :
        /\ p # q
        /\ pc[p] = "idle" /\ pc[q] = "idle"
        /\ result[p] = "ok" /\ result[q] = "ok"
        /\ tx_id[q] = 1 /\ tx_id[p] = 2
        /\ CommittedBefore(2, 1)
        /\ Touches(entries[p], 1, "INR") /\ Touches(entries[q], 1, "INR")
        /\ call[p].op = "reserve" /\ call[q].op = "reserve"

\* ------------------------------------------------------------------ C8
\* C8: a reserve call for more than the available balance returns an
\* insufficient-funds failure and leaves ledger and wallets unchanged.
C8_ReserveRejected ==
    [][ \A p \in Procs :
          ( /\ Returns(p)
            /\ call[p].op = "reserve"
            /\ call[p].amount >
                 Bal(wallets, call[p].from_user, call[p].currency).available )
          => /\ result'[p] # "ok"
             /\ ledger' = ledger
             /\ wallets' = wallets
      ]_vars

\* ------------------------------------------------------------------ C9
\* C9: a release call for more than the reserved balance fails and leaves
\* ledger and wallets unchanged.
C9_ReleaseRejected ==
    [][ \A p \in Procs :
          ( /\ Returns(p)
            /\ call[p].op = "release"
            /\ call[p].amount >
                 Bal(wallets, call[p].from_user, call[p].currency).reserved )
          => /\ result'[p] # "ok"
             /\ ledger' = ledger
             /\ wallets' = wallets
      ]_vars

\* ------------------------------------------------------------------ C10
\* C10: a settle call whose from-user has less reserved than amount is
\* rejected entirely: no ledger entry is written (so the platform fee
\* account is unchanged) and the wallets of both users are unchanged.
C10_SettleRejected ==
    [][ \A p \in Procs :
          ( /\ Returns(p)
            /\ call[p].op = "settle"
            /\ Bal(wallets, call[p].from_user, call[p].currency).reserved
                 < call[p].amount )
          => /\ result'[p] # "ok"
             /\ \A i \in 1..Len(ledger') : ledger'[i].tx_id # tx_id[p]
             /\ SumRows(ledger', account_platform_fees(call[p].currency)) =
                  SumRows(ledger, account_platform_fees(call[p].currency))
             /\ Bal(wallets', call[p].to_user, call[p].currency) =
                  Bal(wallets, call[p].to_user, call[p].currency)
             /\ Bal(wallets', call[p].from_user, call[p].currency) =
                  Bal(wallets, call[p].from_user, call[p].currency)
      ]_vars

\* ------------------------------------------------------------------ C11
\* p enters post_transaction in this step
Begins(p) == pc[p] = "idle" /\ tx_id'[p] # tx_id[p]

\* C11: a call whose amounts do not sum to exactly zero is turned away with
\* the unbalanced error in its first step: no session is opened, no wallet
\* row is locked or created, no ledger row is written then or later.
C11_UnbalancedRejected ==
    [][ \A p \in Procs :
          /\ (Begins(p) /\ SumAmounts(entries'[p]) # 0)
             => /\ result'[p] = "unbalanced"
                /\ pc'[p] = "idle"
                /\ sess'[p] = << >> /\ pending'[p] = << >>
                /\ ledger' = ledger /\ wallets' = wallets
          /\ result[p] = "unbalanced"
             => \A i \in 1..Len(ledger) : ledger[i].tx_id # tx_id[p]
      ]_vars

\* an unbalanced post was turned away while another call was in flight
C11_Witness ==
    \E p \in Procs, q \in Procs :
        /\ result[p] = "unbalanced" /\ SumAmounts(entries[p]) # 0
        /\ pc[q] = "loop" /\ Len(sess[q]) > 0

\* ------------------------------------------------------------------ C12
\* p's call commits in this step
Succeeds(p) == Returns(p) /\ result'[p] = "ok"

\* from.reserved + to.available + the ledger sum of platform:fees
SettleTotal(ws, rows, f, t, cur) ==
    Bal(ws, f, cur).reserved + Bal(ws, t, cur).available
    + SumRows(rows, account_platform_fees(cur))

\* C12: a successful settle with 0 <= fee <= amount leaves from.reserved +
\* to.available + the platform fee total as it was.
C12_SettleConserves ==
    [][ \A p \in Procs :
          ( /\ Succeeds(p)
            /\ call[p].op = "settle"
            /\ 0 <= call[p].fee /\ call[p].fee <= call[p].amount )
          => SettleTotal(wallets', ledger', call[p].from_user,
                         call[p].to_user, call[p].currency)
             = SettleTotal(wallets, ledger, call[p].from_user,
                           call[p].to_user, call[p].currency)
      ]_vars

NonNegative(ws) ==
    \A i \in 1..Len(ws) : ws[i].available >= 0 /\ ws[i].reserved >= 0

\* a funded settle of 2 with fee 1 from user 1 to user 2 has committed
C12_Witness ==
    /\ \E p \in Procs :
          /\ result[p] = "ok" /\ call[p].op = "settle"
          /\ call[p].from_user = 1 /\ call[p].to_user = 2
          /\ call[p].amount = 2 /\ call[p].fee = 1
    /\ NonNegative(wallets)
    /\ SumRows(ledger, account_platform_fees("INR")) = 1
    /\ Bal(wallets, 2, "INR").available = 1

\* ------------------------------------------------------------------ C13
\* the three movements of a settle
SettleMoves(p) ==
    LET f == call[p].from_user
        t == call[p].to_user
        cur == call[p].currency
    IN  /\ Bal(wallets', f, cur).reserved =
              Bal(wallets, f, cur).reserved - call[p].amount
        /\ Bal(wallets', t, cur).available =
              Bal(wallets, t, cur).available + call[p].amount - call[p].fee
        /\ SumRows(ledger', account_platform_fees(cur)) =
              SumRows(ledger, account_platform_fees(cur)) + call[p].fee

\* C13 as stated: a successful settle makes the three movements and leaves
\* from's available, to's reserved and every other wallet unchanged.
C13_SettleEffect_AsStated ==
    [][ \A p \in Procs :
          (Succeeds(p) /\ call[p].op = "settle")
          => LET f == call[p].from_user
                 t == call[p].to_user
                 cur == call[p].currency
             IN  /\ SettleMoves(p)
                 /\ Bal(wallets', f, cur).available =
                       Bal(wallets, f, cur).available
                 /\ Bal(wallets', t, cur).reserved =
                       Bal(wallets, t, cur).reserved
                 /\ \A u \in Users \ {f, t} :
                       Bal(wallets', u, cur) = Bal(wallets, u, cur)
      ]_vars

\* C13 amended: a successful settle makes the three movements and leaves
\* every other wallet unchanged; from's available and to's reserved are
\* unchanged when from and to are different users.
C13_SettleEffect ==
    [][ \A p \in Procs :
          (Succeeds(p) /\ call[p].op = "settle")
          => LET f == call[p].from_user
                 t == call[p].to_user
                 cur == call[p].currency
             IN  /\ SettleMoves(p)
                 /\ f # t =>
                       /\ Bal(wallets', f, cur).available =
                             Bal(wallets, f, cur).available
                       /\ Bal(wallets', t, cur).reserved =
                             Bal(wallets, t, cur).reserved
                 /\ \A u \in Users \ {f, t} :
                       Bal(wallets', u, cur) = Bal(wallets, u, cur)
      ]_vars

\* user 1 reserved 2 and a settle of 1 with fee 1 to user 2 has committed:
\* reserved 1 is left, the recipient holds 0 and the platform holds 1
C13_Witness ==
    /\ \E p \in Procs :
          /\ result[p] = "ok" /\ call[p].op = "settle"
          /\ call[p].from_user = 1 /\ call[p].to_user = 2
          /\ call[p].amount = 1 /\ call[p].fee = 1
    /\ Bal(wallets, 1, "INR") = [available |-> MaxAmount - 2, reserved |-> 1]
    /\ Bal(wallets, 2, "INR") = [available |-> 0, reserved |-> 0]
    /\ Ids(wallets, 2, "INR") # {}
    /\ SumRows(ledger, account_platform_fees("INR")) = 1

\* ------------------------------------------------------------------ C14
RowsOfTx(tx) == {i \in 1..Len(ledger) : ledger[i].tx_id = tx}

\* C14: when the first call after the funded start is reserve(u, a) with a
\* within the available balance and the second is release(u, a), and both
\* have committed in that order, the wallet's available and reserved are
\* what they were before the reserve, and the ledger has gained two
\* independent balanced transactions of two rows each.
C14_ReserveReleaseRoundTrip ==
    \A p \in Procs, q \in Procs :
        ( /\ p # q
          /\ result[p] = "ok" /\ result[q] = "ok"
          /\ tx_id[p] = 1 /\ call[p].op = "reserve"
          /\ tx_id[q] = 2 /\ call[q].op = "release"
          /\ call[q].from_user = call[p].from_user
          /\ call[q].currency = call[p].currency
          /\ call[q].amount = call[p].amount
          /\ call[p].amount <=
               Bal(SeedWallets, call[p].from_user, call[p].currency).available
          /\ CommittedBefore(1, 2)
          /\ TxIds \subseteq {0, 1, 2} )
        => /\ Bal(wallets, call[p].from_user, call[p].currency) =
                Bal(SeedWallets, call[p].from_user, call[p].currency)
           /\ Cardinality(RowsOfTx(1)) = 2 /\ SumTx(ledger, 1) = 0
           /\ Cardinality(RowsOfTx(2)) = 2 /\ SumTx(ledger, 2) = 0
           /\ Len(ledger) = Len(SeedLedger) + 4

\* reserve(1, 'INR', MaxAmount) and then release(1, 'INR', MaxAmount) have
\* both committed
C14_Witness ==
    \E p \in Procs, q \in Procs :
        /\ p # q
        /\ result[p] = "ok" /\ result[q] = "ok"
        /\ tx_id[p] = 1 /\ call[p].op = "reserve"
        /\ tx_id[q] = 2 /\ call[q].op = "release"
        /\ call[p].from_user = 1 /\ call[q].from_user = 1
        /\ call[p].amount = MaxAmount /\ call[q].amount = MaxAmount
        /\ CommittedBefore(1, 2)
        /\ Len(ledger) = Len(SeedLedger) + 4

\* ------------------------------------------------------------------ C15
\* the wallets of every user but u are what they were
OthersUnchanged(u) ==
    \A v \in Users \ {u}, cur \in Currencies :
        /\ Ids(wallets', v, cur) = Ids(wallets, v, cur)
        /\ \A i \in Ids(wallets, v, cur) : wallets'[i] = wallets[i]

\* C15: a successful reserve(u, cur, a) lowers available by a, raises
\* reserved by a, appends exactly the entries +a on the reserved account
\* and -a on the available account under its tx_id, and leaves every other
\* wallet unchanged.
C15_ReserveEffect ==
    [][ \A p \in Procs :
          (Succeeds(p) /\ call[p].op = "reserve")
          => LET u == call[p].from_user
                 cur == call[p].currency
                 a == call[p].amount
             IN  /\ Bal(wallets', u, cur).available =
                       Bal(wallets, u, cur).available - a
                 /\ Bal(wallets', u, cur).reserved =
                       Bal(wallets, u, cur).reserved + a
                 /\ Cardinality(Ids(wallets', u, cur)) = 1
                 /\ ledger' = ledger \o
                       << [account |-> account_user_reserved(u, cur),
                           amount |-> a, tx_id |-> tx_id[p],
                           ref |-> "reserve", entry_type |-> "credit"],
                          [account |-> account_user_available(u, cur),
                           amount |-> 0 - a, tx_id |-> tx_id[p],
                           ref |-> "reserve", entry_type |-> "debit"] >>
                 /\ OthersUnchanged(u)
      ]_vars

\* a reserve of 1 out of the funded balance has committed
C15_Witness ==
    /\ \E p \in Procs :
          /\ result[p] = "ok" /\ call[p].op = "reserve"
          /\ call[p].from_user = 1 /\ call[p].amount = 1
    /\ Bal(wallets, 1, "INR") = [available |-> MaxAmount - 1, reserved |-> 1]
    /\ TxIds = {0, 1}

\* ------------------------------------------------------------------ C16
\* C16: a successful deposit(u, cur, a) raises available by a, leaves
\* reserved as it was, records the user credit and the matching -a entry on
\* external:bank under one tx_id, and returns that tx_id.
C16_DepositEffect ==
    [][ \A p \in Procs :
          (Succeeds(p) /\ call[p].op = "deposit")
          => LET u == call[p].from_user
                 cur == call[p].currency
                 a == call[p].amount
             IN  /\ Bal(wallets', u, cur).available =
                       Bal(wallets, u, cur).available + a
                 /\ Bal(wallets', u, cur).reserved =
                       Bal(wallets, u, cur).reserved
                 /\ tx_id'[p] = tx_id[p] /\ tx_id[p] >= 1
                 /\ \A i \in 1..Len(ledger) : ledger[i].tx_id # tx_id[p]
                 /\ ledger' = ledger \o
                       << [account |-> account_user_available(u, cur),
                           amount |-> a, tx_id |-> tx_id[p],
                           ref |-> "deposit", entry_type |-> "credit"],
                          [account |-> account_external_bank(cur),
                           amount |-> 0 - a, tx_id |-> tx_id[p],
                           ref |-> "deposit", entry_type |-> "debit"] >>
      ]_vars

\* two deposits to user 2 have committed
C16_Witness ==
    /\ \A p \in Procs : result[p] = "ok" /\ call[p].op = "deposit"
                         /\ call[p].from_user = 2
    /\ Bal(wallets, 2, "INR").available =
          call["p1"].amount + call["p2"].amount
    /\ Bal(wallets, 2, "INR").reserved = 0

\* ------------------------------------------------------------------ C17
\* the entries p's loop has already handled
Handled(p) == SubSeq(entries[p], 1, idx[p] - 1)

\* the Wallet objects of (u, cur) in p's session
OwnObjects(p, u, cur) ==
    {j \in 1..Len(sess[p]) :
        sess[p][j].user_id = u /\ sess[p][j].currency = cur}

\* a running call that has handled entries on a user account whose wallet
\* is not in the table holds exactly one new Wallet object for it, started
\* at 0 / 0 and carrying every handled entry of that wallet
SessionWalletCreated ==
    \A p \in Procs, u \in Users, cur \in Currencies :
        ( /\ pc[p] = "loop"
          /\ Ids(wallets, u, cur) = {}
          /\ Touches(Handled(p), u, cur) )
        => /\ result[p] = "running"
           /\ Cardinality(OwnObjects(p, u, cur)) = 1
           /\ \A j \in OwnObjects(p, u, cur) :
                 /\ sess[p][j].id = 0
                 /\ sess[p][j].available =
                       Delta(Handled(p), account_user_available(u, cur))
                 /\ sess[p][j].reserved =
                       Delta(Handled(p), account_user_reserved(u, cur))

\* C17: the first entry of a call on a user account whose (user_id,
\* currency) wallet does not exist creates the wallet at 0 / 0 and applies
\* the entry instead of failing; later entries of the call on that wallet
\* update the same object, and the commit adds exactly one row for it that
\* holds the sum of the call's entries per bucket.
C17_CreatesWalletOnFirstUse ==
    [][ /\ SessionWalletCreated'
        /\ \A p \in Procs, u \in Users, cur \in Currencies :
              ( /\ Succeeds(p)
                /\ Ids(wallets, u, cur) = {}
                /\ Touches(entries[p], u, cur) )
              => /\ Cardinality(Ids(wallets', u, cur)) = 1
                 /\ Bal(wallets', u, cur) =
                       [available |->
                          Delta(entries[p], account_user_available(u, cur)),
                        reserved |->
                          Delta(entries[p], account_user_reserved(u, cur))]
      ]_vars

\* a reserve on a user without a wallet has handled both of its entries
C17_Witness ==
    \E p \in Procs :
        /\ pc[p] = "loop" /\ idx[p] = 3
        /\ call[p].op = "reserve"
        /\ Ids(wallets, call[p].from_user, "INR") = {}
        /\ Len(sess[p]) = 1
        /\ sess[p][1].reserved = call[p].amount
        /\ sess[p][1].available = 0 - call[p].amount

\* ------------------------------------------------------------------ C18
\* C18: the ledger is append-only: every step of the poster and of
\* reconcile() keeps every committed ledger row, in place and unchanged;
\* rows are only added behind them.
C18_LedgerAppendOnly ==
    [][ /\ Len(ledger') >= Len(ledger)
        /\ SubSeq(ledger', 1, Len(ledger)) = ledger
      ]_vars

\* two calls have committed rows, and reconcile() ran in between: it read
\* the ledger after the first commit and has finished
C18_Witness ==
    /\ TxIds = {1, 2}
    /\ Len(ledger) >= 4
    /\ audit.step = "idle" /\ audit.runs = 1
    /\ DOMAIN audit.ledger_map # {}
    /\ audit.ledger_map # LedgerMap(ledger)

\* ------------------------------------------------------------------ C19
UserAccounts ==
    {account_user_available(u, cur) : u \in Users, cur \in Currencies}
    \cup {account_user_reserved(u, cur) : u \in Users, cur \in Currencies}

OtherAccounts ==
    {account_platform_fees(cur) : cur \in Currencies}
    \cup {account_external_bank(cur) : cur \in Currencies}

\* the bucket of the wallet row that account acc names; zero without a row
Bucket(ws, acc) ==
    IF acc[4] = "available" THEN Bal(ws, IntOf(acc[2]), acc[3]).available
    ELSE Bal(ws, IntOf(acc[2]), acc[3]).reserved

Reported(acc) == \E r \in audit.report : r[1] = acc

\* C19: run on unchanging tables, reconcile() reports a user account if and
\* only if the sum of its ledger entries differs from the matching bucket
\* of its wallet row, also for a wallet that holds a non-zero value without
\* any ledger entry; platform and external accounts are never reported.
C19_ReportsIffMismatch ==
    audit.step = "close"
    => /\ \A acc \in UserAccounts :
             Reported(acc) <=> SumRows(ledger, acc) # Bucket(wallets, acc)
       /\ \A acc \in OtherAccounts : ~Reported(acc)

\* ------------------------------------------------------------------ C20
\* p is at a wallet query or an INSERT that the store does not let through
Blocked(p) ==
    /\ pc[p] \in {"loop", "insert"}
    /\ idx[p] <= Len(entries[p])
    /\ LET parts == entries[p][idx[p]].account
       IN  /\ ~KeyRaises(parts)
           /\ IsWalletKey(parts)
           /\ LET ids == CommittedIds(IntOf(parts[2]), parts[3])
              IN  IF pc[p] = "insert"
                  THEN ids = {} /\ InsertPending(p, IntOf(parts[2]), parts[3])
                  ELSE /\ ids # {}
                       /\ \A j \in 1..Len(sess[p]) :
                             sess[p][j].id # Min(ids)
                       /\ RowLocked(p, Min(ids))

\* C20: reconcile() is read-only and lock-free: its steps change no ledger
\* row, no wallet row and nothing of a running post_transaction; it holds
\* no wallet row lock at any time; a post_transaction call that has to wait
\* waits for another post_transaction call, and one that is failed for a
\* lock cycle is in a cycle with another post_transaction call.
C20_AuditReadOnlyLockFree ==
    [][ /\ audit' # audit
           => UNCHANGED <<ledger, wallets, nextTx, pc, call, entries, idx,
                          tx_id, pending, sess, result, svcVars>>
        /\ audit.locks = {} /\ audit'.locks = {}
        /\ \A p \in Procs :
              /\ Blocked(p) => \E q \in Procs : WaitsFor(p, q)
              /\ (Returns(p) /\ result'[p] = "deadlock")
                 => \E q \in Procs : WaitsFor(p, q) /\ WaitsFor(q, p)
      ]_vars

\* reconcile() read an empty ledger, has read the wallets and has not yet
\* closed its session, while one post_transaction call waits for a wallet
\* that another running call holds
C20_Witness ==
    /\ audit.step = "close"
    /\ DOMAIN audit.ledger_map = {}
    /\ \E p \in Procs, q \in Procs :
          /\ Len(sess[p]) > 0
          /\ Blocked(q) /\ WaitsFor(q, p)

\* ------------------------------------------------------------------ C21
\* what settle(f, t, cur, a, fee) is to add to account acc
SettleDelta(acc, f, t, cur, a, fee) ==
    (IF acc = account_user_reserved(f, cur) THEN 0 - a ELSE 0)
    + (IF acc = account_user_available(t, cur) THEN a - fee ELSE 0)
    + (IF acc = account_platform_fees(cur) THEN fee ELSE 0)

C22_OneWalletPerKey ==
    /\ \A u \in Users, cur \in Currencies :
          Cardinality(Ids(wallets, u, cur)) <= 1
    /\ \A p \in Procs :
          result[p] = "integrity_error" => RowsOfTx(tx_id[p]) = {}

\* two calls raced for the first reference to wallet (2, INR): one has
\* committed the row, the other was failed by the unique index
C22_Witness ==
    \E p \in Procs, q \in Procs :
        /\ result[p] = "ok" /\ result[q] = "integrity_error"
        /\ Touches(entries[p], 2, "INR") /\ Touches(entries[q], 2, "INR")
        /\ Cardinality(Ids(wallets, 2, "INR")) = 1
        /\ RowsOfTx(tx_id[p]) # {}

\* ------------------------------------------------------------------ C23
\* C23: every successful post_transaction call has at least one ledger row
\* under the tx_id it returned; a call with an empty entry list does not
\* succeed.
C23_TxIdHasEntry ==
    \A p \in Procs : result[p] = "ok" => RowsOfTx(tx_id[p]) # {}

\* ------------------------------------------------------------------ C24
\* reconcile() compares what it read in this step
Compares == audit.step = "wallets" /\ audit'.step = "close"

\* every user account of the committed ledger equals its wallet bucket
Consistent(rows, ws) ==
    \A acc \in UserAccounts :
        acc \in LedgerAccounts(rows) => SumRows(rows, acc) = Bucket(ws, acc)

\* C24 as stated: while every committed state is consistent, a reconcile()
\* run reports nothing, also when calls commit between its two reads.
C24_NoFalseDiscrepancy_AsStated ==
    [][ (Compares /\ Consistent(ledger, wallets)) => audit'.report = {} ]_vars

\* C24 amended: while every committed state is consistent, a reconcile()
\* run reports nothing provided no call has changed the ledger sums between
\* its read of the ledger and its read of the wallets.
C24_NoFalseDiscrepancy ==
    [][ ( /\ Compares
          /\ Consistent(ledger, wallets)
          /\ audit.ledger_map = LedgerMap(ledger) )
        => audit'.report = {} ]_vars

\* reconcile() read a ledger with user rows, nothing was committed before it
\* read the wallets, and it reports nothing
C24_Witness ==
    /\ audit.step = "close"
    /\ \E acc \in UserAccounts : acc \in DOMAIN audit.ledger_map
    /\ audit.ledger_map = LedgerMap(ledger)
    /\ \E p \in Procs : pc[p] # "idle"
    /\ audit.report = {}

\* ---------------------------------------------- claims on ledger_service
\* p and q run transfers in opposite directions between two different users
OppositeTransfers(p, q) ==
    /\ p # q
    /\ svc[p].kind = "transfer" /\ svc[p].at # "idle"
    /\ svc[q].kind = "transfer" /\ svc[q].at # "idle"
    /\ svc[p].from_id # svc[p].to_id
    /\ svc[p].from_id = svc[q].to_id
    /\ svc[p].to_id = svc[q].from_id

\* the step in which p's lock query returns
Locks(p) ==
    /\ svc[p].at \in {"lock1", "lock2"}
    /\ svc'[p].at # svc[p].at

\* C25: transfer_between_users takes its row locks in ascending user-id
\* order whatever the direction (a row it locks has a higher id than every
\* row it already holds), no two calls ever wait for each other, and every
\* call that has started eventually returns (commits or fails).
C25_AscendingLocksNoDeadlock ==
    /\ [][ \A p \in Procs :
              (Locks(p) /\ svc[p].kind = "transfer")
              => \A i \in DOMAIN svc'[p].objs \ DOMAIN svc[p].objs :
                     \A j \in DOMAIN svc[p].objs : j < i ]_vars
    /\ [](\A p \in Procs, q \in Procs :
              ~(SvcWaitsFor(p, q) /\ SvcWaitsFor(q, p)))
    /\ \A p \in Procs : (svc[p].at # "idle") ~> (svc[p].at = "idle")

\* transfers 2 -> 1 and 1 -> 2 run together; the one that goes from 2 to 1
\* holds row 1 and the other waits for it
C25_Witness ==
    \E p \in Procs, q \in Procs :
        /\ OppositeTransfers(p, q)
        /\ svc[p].from_id = 2
        /\ DOMAIN svc[p].objs = {1}
        /\ SvcWaitsFor(q, p)

\* the step in which p's call returns or raises
SvcReturns(p) == svc[p].at = "body" /\ svc'[p].at = "idle"

\* p runs a transfer between two different existing users for a positive
\* amount that the sender's balance covers
CoveredTransfer(p) ==
    /\ svc[p].kind = "transfer"
    /\ svc[p].from_id \in DOMAIN users
    /\ svc[p].to_id \in DOMAIN users
    /\ svc[p].from_id # svc[p].to_id
    /\ svc[p].amt > 0
    /\ users[svc[p].from_id].balance_inr >= svc[p].amt

\* C26: a transfer between two existing users that the sender's balance
\* covers succeeds, and in one commit from's balance falls by amount, to's
\* balance rises by amount (their sum is unchanged) and exactly two ledger
\* entries are written: transfer_out of -amount for from, transfer_in of
\* +amount for to.
C26_TransferAtomicConserving ==
    [][ \A p \in Procs :
          (SvcReturns(p) /\ CoveredTransfer(p))
          => LET f == svc[p].from_id
                 t == svc[p].to_id
                 a == svc[p].amt
                 n == Len(ledger_entries)
             IN  /\ svc'[p].outcome = "ok"
                 /\ users'[f].balance_inr = users[f].balance_inr - a
                 /\ users'[t].balance_inr = users[t].balance_inr + a
                 /\ Len(ledger_entries') = n + 2
                 /\ SubSeq(ledger_entries', 1, n) = ledger_entries
                 /\ ledger_entries'[n + 1].user_id = f
                 /\ ledger_entries'[n + 1].type = "transfer_out"
                 /\ ledger_entries'[n + 1].amount = 0 - a
                 /\ ledger_entries'[n + 2].user_id = t
                 /\ ledger_entries'[n + 2].type = "transfer_in"
                 /\ ledger_entries'[n + 2].amount = a ]_vars

\* p runs a transfer between existing users
TransferOfExisting(p) ==
    /\ svc[p].kind = "transfer"
    /\ svc[p].from_id \in DOMAIN users
    /\ svc[p].to_id \in DOMAIN users

\* C27: a transfer between existing users for more than the sender's
\* current balance raises the insufficient-funds ValueError before any
\* ledger entry is created and leaves the users table and the ledger as
\* they were; the sender's balance that a transfer which passes the check
\* hands to its ledger entry is never negative, and no stored balance ever
\* is.
C27_InsufficientFundsRejected ==
    /\ [][ \A p \in Procs :
              (SvcReturns(p) /\ TransferOfExisting(p))
              => /\ (svc[p].amt > users[svc[p].from_id].balance_inr)
                      => /\ svc'[p].outcome = "insufficient_funds"
                         /\ svc'[p].entry_args = << >>
                         /\ users' = users
                         /\ ledger_entries' = ledger_entries
                 /\ (svc'[p].entry_args # << >>)
                      => svc'[p].entry_args[1].balance_after >= 0 ]_vars
    /\ [](\A u \in DOMAIN users : users[u].balance_inr >= 0)

\* a transfer between existing users was refused for insufficient funds
C27_Witness ==
    \E p \in Procs :
        /\ TransferOfExisting(p)
        /\ svc[p].at = "idle"
        /\ svc[p].amt > users[svc[p].from_id].balance_inr
        /\ svc[p].outcome = "insufficient_funds"

\* C28: a transfer whose from or to user id has no row fails with the
\* ValueError 'One or both users not found for transfer', and the users
\* table and the ledger are as before.
C28_MissingUserRejected ==
    [][ \A p \in Procs :
          ( /\ SvcReturns(p)
            /\ svc[p].kind = "transfer"
            /\ (svc[p].from_id \notin DOMAIN users
                  \/ svc[p].to_id \notin DOMAIN users) )
          => /\ svc'[p].outcome = "not_found"
             /\ users' = users
             /\ ledger_entries' = ledger_entries ]_vars

\* p runs debit_user with allow_negative False on an existing user
GuardedDebit(p) ==
    /\ svc[p].kind = "debit"
    /\ ~svc[p].allow_negative
    /\ svc[p].from_id \in DOMAIN users

\* C29: debit_user with allow_negative False raises ValueError when the
\* current balance is less than amount, creating no ledger entry and
\* changing nothing; when it passes the check the balance it sets is not
\* negative, and the stored balance is never negative afterwards.  A
\* debit_user call that sets a negative balance has allow_negative True.
C29_DebitNeverNegative ==
    [][ \A p \in Procs :
          (SvcReturns(p) /\ svc[p].kind = "debit"
             /\ svc[p].from_id \in DOMAIN users)
          => LET u == svc[p].from_id
                 args == svc'[p].entry_args
             IN  /\ (GuardedDebit(p) /\ users[u].balance_inr < svc[p].amt)
                      => /\ svc'[p].outcome = "insufficient_funds"
                         /\ args = << >>
                         /\ users' = users
                         /\ ledger_entries' = ledger_entries
                 /\ GuardedDebit(p) => users'[u].balance_inr >= 0
                 /\ (args # << >> /\ args[1].balance_after < 0)
                      => svc[p].allow_negative ]_vars

\* a debit_user call with allow_negative False was refused, and another
\* one with allow_negative True got as far as a negative balance
C29_Witness ==
    \E p \in Procs, q \in Procs :
        /\ GuardedDebit(p)
        /\ svc[p].at = "idle"
        /\ svc[p].outcome = "insufficient_funds"
        /\ svc[q].kind = "debit"
        /\ svc[q].allow_negative
        /\ svc[q].entry_args # << >>
        /\ svc[q].entry_args[1].balance_after < 0

\* C30: for every credit_user, debit_user and transfer_between_users call
\* that passes its checks and every amount (zero and negative included),
\* the amount of each ledger entry it creates equals the change it applied
\* to that user's balance (the balance after minus the balance it loaded).
C30_EntryAmountIsChange ==
    [][ \A p \in Procs :
          SvcReturns(p)
          => \A k \in DOMAIN svc'[p].entry_args :
                LET e == svc'[p].entry_args[k]
                IN  e.amount = e.balance_after - svc[p].objs[e.user_id] ]_vars

====
